---- MODULE Spec2Model ----
(***************************************************************************)
(* pyvitals: acquisition of level packages.                                *)
(*                                                                         *)
(* The module models the collision-safe path allocator `rename` and the    *)
(* streamed download `download_level` / `async_download_level` over an     *)
(* explicit model of one target directory, the name resolver get_filename, *)
(* the extracting entry points, the in-place unzip_level of py-vitals, and *)
(* the decoder parse_level.                                                *)
(*                                                                         *)
(* File names are sequences of one-character strings, so that pathlib's    *)
(* stem / suffix split and the " (n)" numbering are computed, not assumed. *)
(***************************************************************************)
EXTENDS Integers, Sequences, FiniteSets, TLC

VARIABLES
    fs,          \* the target directory: file name -> entry ('../name' for
                 \* an entry of the directory above)
    nextIno,     \* next fresh inode number
    lastRename,  \* the standalone call of rename that has just returned
    lastCall,    \* the standalone call of get_filename or parse_level that
                 \* has just returned, or the call of the in-place
                 \* unzip_level in progress
    uz,          \* per calling style: one call of an extracting entry point
    sched,       \* how the callers are scheduled: "sequential", "threads"
                 \* or "coroutines"
    fs0,         \* the directory at the start of the run
    ncalls,      \* number of download calls started so far
    pc,          \* per worker: position inside download_level
    call,        \* per worker: the arguments and the server's response
    full_path,   \* per worker: local variable full_path
    index,       \* per worker: local variable index of rename
    fd,          \* per worker: the open destination file
    pos,         \* per worker: number of chunks taken from the response
    err,         \* per worker: the exception in flight
    cause,       \* per worker: the first exception raised in the call
    snap,        \* per worker: the directory when the call started
    hist         \* the calls that returned to the sequential caller or to
                 \* the event loop, in order

vars == <<fs, nextIno, lastRename, lastCall, uz, sched, fs0, ncalls, pc, call, full_path,
          index, fd, pos, err, cause, snap, hist>>

dlvars == <<lastCall, uz, sched, fs0, ncalls, pc, call, full_path, index, fd, pos, err,
            cause, snap, hist>>

----------------------------------------------------------------------------
(* Bounds *)

\* highest candidate index another process may occupy next to a desired path
MaxIndex == 4

\* number of download calls in one run
MaxCalls == 2

\* number of chunks in a response body
MaxChunks == 2

\* number of members in an archive
MaxMembers == 2

\* number of key-value pairs in a level document
MaxPairs == 2

----------------------------------------------------------------------------
(* Strings *)

\* an optional value is a sequence of length 0 or 1
Nil == <<>>
Some(x) == <<x>>

Digit(d) ==
    CASE d = 0 -> "0" [] d = 1 -> "1" [] d = 2 -> "2" [] d = 3 -> "3"
      [] d = 4 -> "4" [] d = 5 -> "5" [] d = 6 -> "6" [] d = 7 -> "7"
      [] d = 8 -> "8" [] d = 9 -> "9"

\* f"{index}": the decimal digits of a natural number
RECURSIVE Str(_)
Str(n) == IF n < 10 THEN <<Digit(n)>> ELSE Str(n \div 10) \o <<Digit(n % 10)>>

\* name.rfind('.'), as a 1-based position; 0 when there is no dot
RFindDot(name) ==
    LET dots == {i \in 1..Len(name) : name[i] = "."}
    IN  IF dots = {} THEN 0 ELSE CHOOSE i \in dots : \A j \in dots : j <= i

\* PurePath.suffix: the last dot starts the suffix unless it is the first
\* or the last character of the name
Suffix(name) ==
    LET i == RFindDot(name)
    IN  IF 1 < i /\ i < Len(name) THEN SubSeq(name, i, Len(name)) ELSE <<>>

\* PurePath.stem
Stem(name) ==
    LET i == RFindDot(name)
    IN  IF 1 < i /\ i < Len(name) THEN SubSeq(name, 1, i - 1) ELSE name

----------------------------------------------------------------------------
(* Paths and the directory *)

\* the target directory that exists, and one that does not
Dir == "dir"
NoDir == "nodir"

\* the directory that holds the target directories
Parent == "."

\* the name of a target directory, as its parent lists it
DirName(dir) ==
    IF dir = Dir THEN <<"d", "i", "r">> ELSE <<"n", "o", "d", "i", "r">>

\* Path(path, name): pathlib drops an empty segment and a '.' segment, so
\* with such a name the result is the directory itself, whose parent is
\* the directory above and whose name is the directory's name
Path(dir, name) ==
    IF name \in {<<>>, <<".">>} /\ dir \in {Dir, NoDir}
    THEN [dir |-> Parent, name |-> DirName(dir)]
    ELSE [dir |-> dir, name |-> name]

\* PurePath.with_stem(stem) == with_name(stem + self.suffix)
with_stem(path, stem) == Path(path.dir, stem \o Suffix(path.name))

\* path.with_stem(path.stem + f" ({index})")
Candidate(path, i) ==
    with_stem(path, Stem(path.name) \o <<" ", "(">> \o Str(i) \o <<")">>)

File(ino, data) == [kind |-> "file", ino |-> ino, data |-> data]
Directory(ino) == [kind |-> "dir", ino |-> ino, data |-> <<>>]

\* the directory f lists the entries by their path relative to the target
\* directory: a name, or '../' and a name for an entry of the parent
Slot(path) ==
    IF path.dir = Parent THEN <<".", ".", "/">> \o path.name ELSE path.name

\* Path.exists(); the target directory itself is an entry of its parent
Exists(f, path) ==
    \/ path.dir \in {Dir, Parent} /\ Slot(path) \in DOMAIN f
    \/ path = [dir |-> Parent, name |-> DirName(Dir)]

IsFile(f, path) ==
    Exists(f, path) /\ Slot(path) \in DOMAIN f /\ f[Slot(path)].kind = "file"
IsDir(f, path) ==
    Exists(f, path) /\ (Slot(path) \in DOMAIN f => f[Slot(path)].kind = "dir")

Put(f, name, entry) ==
    [n \in DOMAIN f \cup {name} |-> IF n = name THEN entry ELSE f[n]]

Remove(f, name) == [n \in DOMAIN f \ {name} |-> f[n]]

----------------------------------------------------------------------------
(* rename *)

\* a rename without its loop
probe_once(f, path, i) == Candidate(path, i)

RECURSIVE probe(_, _, _)
\* the while loop of rename, entered with the given index
probe(f, path, i) ==
    IF Exists(f, Candidate(path, i)) THEN probe(f, path, i + 1)
    ELSE Candidate(path, i)

\* a rename that numbers every path
NeedsProbe_always(f, path) == TRUE

\* a rename that never numbers
NeedsProbe_never(f, path) == FALSE

\* the negated test of `if not path.exists(): return path`
NeedsProbe(f, path) == Exists(f, path)

\* rename(path), evaluated on the directory f
rename(f, path) == IF ~NeedsProbe(f, path) THEN path ELSE probe(f, path, 2)

\* a rename that reserves the path it returns
renameEffect_reserve(f, path) ==
    IF path.dir = Dir THEN Put(f, path.name, File(0, <<>>)) ELSE f

\* the directory after rename(path): rename only calls exists()
renameEffect(f, path) == f

----------------------------------------------------------------------------
(* get_filename *)

\* '.rdzip'
Ext == <<".", "r", "d", "z", "i", "p">>

\* str.endswith
endswith(s, suffix) ==
    /\ Len(s) >= Len(suffix)
    /\ SubSeq(s, Len(s) - Len(suffix) + 1, Len(s)) = suffix

\* a split that keeps the whole string
rsplit_whole(s) == s

\* url.rsplit('/', 1)[-1]: the text after the last '/'
rsplit_last(s) ==
    LET slashes == {i \in 1..Len(s) : s[i] = "/"}
    IN  IF slashes = {} THEN s
        ELSE SubSeq(s, (CHOOSE i \in slashes : \A j \in slashes : j <= i) + 1,
                    Len(s))

\* the characters of r'<>:"/\|?*', in the order of the loop
Illegal == <<"<", ">", ":", "\"", "/", "\\", "|", "?", "*">>

\* a replace that puts a substitute where the character was
replace_substitute(name, char) ==
    [i \in 1..Len(name) |-> IF name[i] = char THEN "_" ELSE name[i]]

\* name.replace(char, '')
replace(name, char) == SelectSeq(name, LAMBDA c : c # char)

RECURSIVE sanitize_from(_, _)
\* the passes of `for char in ...: name = name.replace(char, '')` from the
\* i-th character on
sanitize_from(name, i) ==
    IF i > Len(Illegal) THEN name
    ELSE sanitize_from(replace(name, Illegal[i]), i + 1)

\* the whole loop
sanitize(name) == sanitize_from(name, 1)

\* the literal `filename` of the pattern
FilenameKey == <<"f", "i", "l", "e", "n", "a", "m", "e">>

\* where a greedy run of characters outside `stops` that begins at p ends:
\* the position of the first character in `stops`, or Len(h) + 1
run_end(h, p, stops) ==
    LET at == {i \in p..Len(h) : h[i] \in stops}
    IN  IF at = {} THEN Len(h) + 1
        ELSE CHOOSE i \in at : \A j \in at : i <= j

\* the pattern filename[^;=\n]*=(([\'"]).*?\2|[^;\n]*) matched at position
\* s: group 1 if it matches, Nil if not.  The greedy run [^;=\n]* must end
\* at '='.  A value that opens with a quote and has the same quote later on
\* the line is taken up to the first such quote, quotes included; any other
\* value is the run up to ';' or the end of the line.
match_at(h, s) ==
    IF s + 7 > Len(h) \/ SubSeq(h, s, s + 7) # FilenameKey THEN Nil
    ELSE LET q == run_end(h, s + 8, {";", "=", "\n"})
         IN  IF q > Len(h) \/ h[q] # "=" THEN Nil
             ELSE LET g == q + 1
                      closing ==
                          IF g <= Len(h) /\ h[g] \in {"'", "\""}
                          THEN {k \in (g + 1)..Len(h) :
                                   /\ h[k] = h[g]
                                   /\ \A j \in (g + 1)..(k - 1) : h[j] # "\n"}
                          ELSE {}
                  IN  IF closing # {}
                      THEN Some(SubSeq(h, g, CHOOSE k \in closing :
                                                \A j \in closing : k <= j))
                      ELSE Some(SubSeq(h, g,
                                       run_end(h, g, {";", "\n"}) - 1))

\* re.search(pattern, header): the leftmost match; match.group(1) or Nil
search(h) ==
    LET starts == {s \in 1..Len(h) : match_at(h, s) # Nil}
    IN  IF starts = {} THEN Nil
        ELSE match_at(h, CHOOSE s \in starts : \A t \in starts : s <= t)

Named(name) == [ok |-> TRUE, name |-> name, arg |-> <<>>]

\* raise BadURLFilename(message, url)
BadURLFilename(url) == [ok |-> FALSE, name |-> <<>>, arg |-> url]

\* a resolver that falls back to a default name
get_filename_default(url, header) == Named(<<"l", "e", "v", "e", "l">> \o Ext)

\* get_filename(r) for a response with the given url and Content-Disposition
\* header (Nil when the header is absent)
get_filename(url, header) ==
    IF endswith(url, Ext) THEN Named(sanitize(rsplit_last(url)))
    ELSE IF header = Nil THEN BadURLFilename(url)
    ELSE IF search(header[1]) = Nil THEN BadURLFilename(url)
    ELSE Named(sanitize(search(header[1])[1]))

----------------------------------------------------------------------------
(* unzip_level and the entry points that extract an archive.  One call runs *)
(* on its own copy of the target directory; the temporary directories are  *)
(* kept apart from it.                                                     *)

\* the blocking and the cooperatively scheduled call style
Styles == {"blocking", "async"}

\* main.rdlevel, and another file of a level
MainRdlevel == <<"m", "a", "i", "n", ".", "r", "d", "l", "e", "v", "e", "l">>
Song == <<"s", ".", "o", "g", "g">>

\* a member and what extracting it runs into on the member's own account:
\* nothing, an OSError for its name (too long, not valid on the
\* filesystem), or a BadZipFile for its data (bad CRC-32)
Members == [name : {MainRdlevel, Song}, fault : {"none", "OSError", "BadZipFile"}]

\* a file that is not a zip file, a file with an end-of-central-directory
\* record but a broken central directory, and the zip files
NotZip == [kind |-> "notzip", members |-> <<>>]
Archives ==
    {NotZip, [kind |-> "badcentral", members |-> <<>>]}
    \cup {[kind |-> "zip", members |-> m] :
            m \in UNION {[1..k -> Members] : k \in 0..MaxMembers}}

\* zipfile.is_zipfile: looks for the end-of-central-directory record only
is_zipfile(a) == a.kind # "notzip"

\* an except clause that catches the class OSError without its subclasses
IsOSError_exact(type) == type = "OSError"

\* `except OSError`: OSError and its subclasses
IsOSError(type) ==
    type \in {"OSError", "FileExistsError", "FileNotFoundError",
              "IsADirectoryError", "NotADirectoryError", "PermissionError"}

\* the entry points whose extraction goes through unzip_level
UsesUnzipLevel(entry) ==
    entry \in {"unzip_level", "download_unzip", "async_download_unzip",
               "parse_url"}

\* the entry points that download the archive into a temporary directory
Downloads(entry) ==
    entry \in {"download_unzip", "async_download_unzip", "parse_url",
               "async_parse_url"}

\* the entry points that extract into a temporary directory and parse
\* main.rdlevel there
Parses(entry) == entry \in {"parse_url", "parse_rdzip", "async_parse_url"}

\* the cooperatively scheduled twin of download_unzip and of parse_url
AsyncOf(entry) ==
    IF entry = "download_unzip" THEN "async_download_unzip"
    ELSE "async_parse_url"

\* input_path: the caller's archive, or the one in the download's tempdir
InputPath(entry) ==
    IF Downloads(entry) THEN "tempdir/L.rdzip" ELSE "L.rdzip"

\* where the members go: the target directory itself ("dir"), a subfolder
\* of it ("sub"), or a temporary directory ("temp")
Out(where, name) == [where |-> where, name |-> name]

\* output_path; with create_subfolder download_unzip takes
\* rename(Path(output_path, zipped_path.stem)), and the caller of unzip_level
\* passes the subfolder as it is
OutputPath(entry, create_subfolder, f, zipped) ==
    IF Parses(entry) THEN Out("temp", <<>>)
    ELSE IF ~create_subfolder THEN Out("dir", <<>>)
    ELSE IF entry = "unzip_level" THEN Out("sub", Stem(zipped))
    ELSE Out("sub", rename(f, Path(Dir, Stem(zipped))).name)

\* an exception: BadRDZipFile(message, file_path) carries a path, those of
\* the standard library do not
UnzipError(type, file_path) == [type |-> type, file_path |-> file_path]

NoUnzip ==
    [pc |-> "idle", entry |-> "", archive |-> NotZip, input_path |-> "",
     create_subfolder |-> FALSE, out |-> Out("dir", <<>>), fs |-> <<>>,
     before |-> <<>>, inside |-> {}, tmp |-> FALSE, next |-> 0, ino |-> 0,
     err |-> UnzipError("", Nil), cause |-> "", result |-> Nil]

\* the call as it reaches its first statement after the download, if any
Begin(entry, a, create_subfolder, f, ino, zipped) ==
    [pc |-> IF UsesUnzipLevel(entry) THEN "is_zipfile" ELSE "ZipFile",
     entry |-> entry, archive |-> a, input_path |-> InputPath(entry),
     create_subfolder |-> create_subfolder,
     out |-> OutputPath(entry, create_subfolder, f, zipped),
     fs |-> f, before |-> f, inside |-> {},
     tmp |-> Downloads(entry) \/ Parses(entry),
     next |-> 1, ino |-> ino, err |-> UnzipError("", Nil), cause |-> "",
     result |-> Nil]

\* leaving the `with TemporaryDirectory()` blocks removes the temporary
\* directories and what was extracted into them
LeaveTemp(u) ==
    [u EXCEPT !.tmp = FALSE,
              !.inside = IF u.out.where = "temp" THEN {} ELSE @]

\* an exception of the given type is raised inside ZipFile / extractall:
\* unzip_level's `except OSError` turns it into BadRDZipFile(input_path),
\* parse_rdzip has no handler
RaiseInExtract(u, type) ==
    [LeaveTemp(u) EXCEPT
        !.pc = "raised",
        !.cause = type,
        !.err = IF UsesUnzipLevel(u.entry) /\ IsOSError(type)
                THEN UnzipError("BadRDZipFile", Some(u.input_path))
                ELSE UnzipError(type, Nil)]

\* what extracting member m into the output runs into
Fault(u, m) ==
    IF u.out.where = "sub" /\ IsFile(u.fs, Path(Dir, u.out.name))
    THEN "NotADirectoryError"
    ELSE IF m.fault = "OSError" THEN "OSError"
    ELSE IF u.out.where = "dir" /\ IsDir(u.fs, Path(Dir, m.name))
    THEN "IsADirectoryError"
    ELSE m.fault

\* the output with member m written: the subfolder is made when missing,
\* a file of the same name is overwritten
Written(u, m) ==
    IF u.out.where = "dir"
    THEN [u EXCEPT
            !.fs = Put(u.fs, m.name,
                       File(IF m.name \in DOMAIN u.fs THEN u.fs[m.name].ino
                            ELSE u.ino, <<m.name>>)),
            !.ino = IF m.name \in DOMAIN u.fs THEN @ ELSE @ + 1]
    ELSE IF u.out.where = "sub"
    THEN [u EXCEPT
            !.fs = IF u.out.name \in DOMAIN u.fs THEN @
                   ELSE Put(u.fs, u.out.name, Directory(u.ino)),
            !.ino = IF u.out.name \in DOMAIN u.fs THEN @ ELSE @ + 1,
            !.inside = @ \cup {m.name}]
    ELSE [u EXCEPT !.inside = @ \cup {m.name}]

----------------------------------------------------------------------------
(* parse_level: the text of main.rdlevel is a sequence of characters *)

Digits == {"0", "1", "2", "3", "4", "5", "6", "7", "8", "9"}

Letters ==
    {"a", "b", "c", "d", "e", "f", "g", "h", "i", "j", "k", "l", "m", "n",
     "o", "p", "q", "r", "s", "t", "u", "v", "w", "x", "y", "z",
     "A", "B", "C", "D", "E", "F", "G", "H", "I", "J", "K", "L", "M", "N",
     "O", "P", "Q", "R", "S", "T", "U", "V", "W", "X", "Y", "Z"}

\* the first position from p on whose character is not in the class; the
\* position after the text when there is none
class_end(t, p, class) ==
    LET at == {i \in p..Len(t) : t[i] \notin class}
    IN  IF at = {} THEN Len(t) + 1 ELSE CHOOSE i \in at : \A j \in at : i <= j

\* the pattern's tail ` \"`: a space and a quote follow position e
key_follows(t, e) == e + 2 <= Len(t) /\ t[e + 1] = " " /\ t[e + 2] = "\""

\* the group ([0-9]|[1-9][0-9]|100|\"([a-zA-Z]|[0-9])*\") tried at p with
\* the tail after it: the position of the group's last character, 0 when
\* no alternative matches
group_end(t, p) ==
    IF p > Len(t) THEN 0
    ELSE IF t[p] \in Digits /\ key_follows(t, p) THEN p
    ELSE IF /\ p + 1 <= Len(t)
            /\ t[p] \in Digits \ {"0"}
            /\ t[p + 1] \in Digits
            /\ key_follows(t, p + 1) THEN p + 1
    ELSE IF /\ p + 2 <= Len(t)
            /\ SubSeq(t, p, p + 2) = <<"1", "0", "0">>
            /\ key_follows(t, p + 2) THEN p + 2
    ELSE IF t[p] = "\""
    THEN LET q == class_end(t, p + 1, Letters \cup Digits)
         IN  IF q <= Len(t) /\ t[q] = "\"" /\ key_follows(t, q) THEN q ELSE 0
    ELSE 0

\* the pattern \": (...) \" tried at p: the position of the group's last
\* character, 0 when it does not match there
separator_at(t, p) ==
    IF p + 2 <= Len(t) /\ t[p] = "\"" /\ t[p + 1] = ":" /\ t[p + 2] = " "
    THEN group_end(t, p + 3)
    ELSE 0

RECURSIVE sub_from(_, _)
\* re.sub from position p on: the matches are taken left to right and do
\* not overlap; each is replaced by '": \1, "'
sub_from(t, p) ==
    IF p > Len(t) THEN <<>>
    ELSE LET e == separator_at(t, p)
         IN  IF e = 0 THEN <<t[p]>> \o sub_from(t, p + 1)
             ELSE <<"\"", ":", " ">> \o SubSeq(t, p + 3, e)
                  \o <<",", " ", "\"">> \o sub_from(t, e + 3)

\* a parse_level without the repair of missing commas
fix_commas_off(t) == t

\* re.sub(r'\": ([0-9]|[1-9][0-9]|100|\"([a-zA-Z]|[0-9])*\") \"',
\*        r'": \1, "', text)
fix_commas(t) == sub_from(t, 1)

\* a normalization that removes the line feeds only
fix_newlines_lf(t) == SelectSeq(t, LAMBDA c : c # "\n")

\* re.sub(r'(\r\n|\n|\r|\t)', '', text)
fix_newlines(t) == SelectSeq(t, LAMBDA c : c \notin {"\r", "\n", "\t"})

\* decoded values: an integer, a string, a literal, an array, a mapping
Val(t, v) == [t |-> t, v |-> v]

Failed == [ok |-> FALSE, val |-> [t |-> "none", v |-> <<>>], p |-> 0]
Parsed(val, p) == [ok |-> TRUE, val |-> val, p |-> p]

\* the position of the next character that is not JSON whitespace
skip_ws(t, p) == class_end(t, p, {" ", "\n", "\r", "\t"})

RECURSIVE ToInt(_)
ToInt(ds) ==
    IF ds = <<>> THEN 0
    ELSE 10 * ToInt(SubSeq(ds, 1, Len(ds) - 1))
         + (CHOOSE d \in 0..9 : Digit(d) = ds[Len(ds)])

\* a JSON integer at p: an optional '-', then 0 or a run of digits that
\* does not start with 0
parse_number(t, p) ==
    LET d == IF t[p] = "-" THEN p + 1 ELSE p
        e == IF d <= Len(t) /\ t[d] = "0" THEN d + 1
             ELSE class_end(t, d, Digits)
    IN  IF e = d THEN Failed
        ELSE Parsed(Val("int", IF d = p THEN ToInt(SubSeq(t, d, e - 1))
                           ELSE 0 - ToInt(SubSeq(t, d, e - 1))), e)

\* a JSON string at p, where t[p] is the opening quote
parse_string(t, p) ==
    LET q == class_end(t, p + 1, {c \in Letters \cup Digits \cup
                                     {" ", ":", ",", "[", "]", "{", "}",
                                      "-", "\\"} : c # "\\"})
    IN  IF q <= Len(t) /\ t[q] = "\"" THEN Parsed(Val("str", SubSeq(t, p + 1, q - 1)), q + 1)
        ELSE Failed

parse_literal(t, p) ==
    LET word(w) == p + Len(w) - 1 <= Len(t) /\ SubSeq(t, p, p + Len(w) - 1) = w
    IN  IF word(<<"t", "r", "u", "e">>) THEN Parsed(Val("lit", "true"), p + 4)
        ELSE IF word(<<"f", "a", "l", "s", "e">>) THEN Parsed(Val("lit", "false"), p + 5)
        ELSE IF word(<<"n", "u", "l", "l">>) THEN Parsed(Val("lit", "null"), p + 4)
        ELSE Failed

RECURSIVE parse_value(_, _), parse_members(_, _, _), parse_elements(_, _, _)

\* the members of an object from p on, where p is at a key or at the
\* closing brace (PM_TRAILING_COMMAS: a comma may precede the brace); a
\* repeated key keeps its last value
parse_members(t, p, acc) ==
    IF p > Len(t) THEN Failed
    ELSE IF t[p] = "}" THEN Parsed(Val("obj", acc), p + 1)
    ELSE IF t[p] # "\"" THEN Failed
    ELSE LET k == parse_string(t, p)
             c == skip_ws(t, k.p)
             v == parse_value(t, c + 1)
             e == skip_ws(t, v.p)
             acc2 == Put(acc, k.val.v, v.val)
         IN  IF ~k.ok THEN Failed
             ELSE IF c > Len(t) \/ t[c] # ":" THEN Failed
             ELSE IF ~v.ok THEN Failed
             ELSE IF e > Len(t) THEN Failed
             ELSE IF t[e] = "," THEN parse_members(t, skip_ws(t, e + 1), acc2)
             ELSE IF t[e] = "}" THEN Parsed(Val("obj", acc2), e + 1)
             ELSE Failed

\* the elements of an array from p on
parse_elements(t, p, acc) ==
    IF p > Len(t) THEN Failed
    ELSE IF t[p] = "]" THEN Parsed(Val("arr", acc), p + 1)
    ELSE LET v == parse_value(t, p)
             e == skip_ws(t, v.p)
         IN  IF ~v.ok THEN Failed
             ELSE IF e > Len(t) THEN Failed
             ELSE IF t[e] = ","
             THEN parse_elements(t, skip_ws(t, e + 1), Append(acc, v.val))
             ELSE IF t[e] = "]" THEN Parsed(Val("arr", Append(acc, v.val)), e + 1)
             ELSE Failed

parse_value(t, p0) ==
    LET p == skip_ws(t, p0)
    IN  IF p > Len(t) THEN Failed
        ELSE IF t[p] = "{" THEN parse_members(t, skip_ws(t, p + 1), <<>>)
        ELSE IF t[p] = "[" THEN parse_elements(t, skip_ws(t, p + 1), <<>>)
        ELSE IF t[p] = "\"" THEN parse_string(t, p)
        ELSE IF t[p] \in Digits \cup {"-"} THEN parse_number(t, p)
        ELSE parse_literal(t, p)

\* rapidjson.loads(text, parse_mode=PM_TRAILING_COMMAS): one value, and
\* nothing but whitespace after it; a failure is a JSONDecodeError
loads(t) ==
    LET r == parse_value(t, 1)
    IN  IF r.ok /\ skip_ws(t, r.p) > Len(t) THEN [ok |-> TRUE, val |-> r.val]
        ELSE [ok |-> FALSE, val |-> Failed.val]

\* U+FEFF, the byte order mark, as one character of a file
BOM == "BOM"

\* open(path, "r", encoding="utf-8-sig").read(): a byte order mark at the
\* beginning of the file is not part of the text
utf_8_sig(file) ==
    IF file # <<>> /\ Head(file) = BOM THEN Tail(file) ELSE file

\* a parse_level that removes the line breaks before it repairs the commas
parse_level_strip_first(file) ==
    loads(fix_commas(fix_newlines(utf_8_sig(file))))

\* parse_level on a file with the given content
parse_level(file) == loads(fix_newlines(fix_commas(utf_8_sig(file))))

----------------------------------------------------------------------------
(* The callers and one call of download_level / async_download_level.      *)
(* Both functions have the same body; the asynchronous one suspends where  *)
(* the blocking one blocks (entering the stream, taking the next chunk).   *)

Workers == {1, 2}

Level == <<"L", ".", "r", "d", "z", "i", "p">>
Level2 == Candidate(Path(Dir, Level), 2).name

NoPath == [dir |-> NoDir, name |-> <<>>]
NoCall == [filename |-> Nil, dir |-> NoDir, status |-> 0, url |-> <<>>,
           header |-> Nil, resolved |-> Nil, body |-> <<>>]
Closed == [open |-> FALSE, ino |-> 0, off |-> 0]
NoError == [type |-> "", origin |-> "", arg |-> <<>>]

\* the body streamed by the k-th call: its chunks are distinct from each
\* other and from those of every other call
Body(k, len) == [i \in 1..len |-> 10 * k + i]

\* a status check for server errors only
is_error_5xx(status) == status >= 500

\* httpx.Response.is_error, the test of raise_for_status
is_error(status) == status >= 400

\* a download that ignores the filename argument
UsesResolver_always(filename) == TRUE

\* `if filename is None` of download_level
UsesResolver(filename) == filename = Nil

\* `except Exception` catches everything but the BaseExceptions
\* (asyncio.CancelledError, KeyboardInterrupt)
IsException(type) == type \notin {"CancelledError", "KeyboardInterrupt"}

\* a write that puts the chunk before what the file holds
WriteAt_front(data, off, chunk) == <<chunk>> \o data

\* file.write(chunk) at the file offset off: bytes are put at the offset,
\* a gap left by a truncation is filled with zeros
WriteAt(data, off, chunk) ==
    [i \in 1..(IF Len(data) > off + 1 THEN Len(data) ELSE off + 1) |->
        IF i = off + 1 THEN chunk
        ELSE IF i <= Len(data) THEN data[i] ELSE 0]

\* a handler that does not delete
unlink_nothing(f, path) == f

\* full_path.unlink(), when a file is there
unlink(f, path) == Remove(f, Slot(path))

\* an event loop that could switch coroutines at any statement
Suspended_anywhere(s) ==
    IF s = "coroutines"
    THEN {"idle", "status", "resolve", "rename", "probe", "open", "next",
          "except", "returned", "raised"}
    ELSE {"idle"}

\* where a caller that is not running may stand.  A coroutine leaves the
\* event loop to the others only at an await: entering the stream (the
\* response has arrived, "status"), taking the next chunk of `async for`
\* ("next"), and leaving the stream on the way out ("returned", "raised").
\* A sequential caller runs one call from beginning to end.
Suspended(s) ==
    IF s = "coroutines"
    THEN {"idle", "status", "next", "returned", "raised"}
    ELSE {"idle"}

\* a worker may take a step: threads are preempted anywhere, a coroutine
\* runs while the others are at an await, a sequential caller finishes one
\* call before the next begins
Runnable(w) ==
    sched = "threads" \/ \A v \in Workers \ {w} : pc[v] \in Suspended(sched)

\* an exception raised inside the try block goes to the handler when the
\* except clause matches it, and to the caller otherwise
Handler(type) == IF IsException(type) THEN "except" ELSE "raised"

\* the directories a run may start with
Dir0 == <<>>
Dir1 == Put(Dir0, Level, File(1, <<99>>))
Dir2 == Put(Dir1, Level2, Directory(2))

InitWith(s, dirs) ==
    /\ fs \in dirs
    /\ fs0 = fs
    /\ nextIno = 3
    /\ lastRename = Nil
    /\ lastCall = Nil
    /\ uz = [style \in Styles |-> NoUnzip]
    /\ sched = s
    /\ ncalls = 0
    /\ pc = [w \in Workers |-> "idle"]
    /\ call = [w \in Workers |-> NoCall]
    /\ full_path = [w \in Workers |-> NoPath]
    /\ index = [w \in Workers |-> 0]
    /\ fd = [w \in Workers |-> Closed]
    /\ pos = [w \in Workers |-> 0]
    /\ err = [w \in Workers |-> NoError]
    /\ cause = [w \in Workers |-> NoError]
    /\ snap = [w \in Workers |-> <<>>]
    /\ hist = <<>>

Init == InitWith("sequential", {Dir0, Dir1, Dir2})

InitThreads == InitWith("threads", {Dir0, Dir1})

InitCoroutines == InitWith("coroutines", {Dir0, Dir1})

\* the url and Content-Disposition header of the responses: a url that
\* ends with the level's name, and a url without a name whose response has
\* no header, a header without a filename, a filename parameter without a
\* value, an empty quoted name, or names the level
PlainUrl == <<"h", "/", "d">>
LevelUrlResponse == [url |-> <<"h", "/">> \o Level, header |-> Nil]
Responses ==
    {LevelUrlResponse}
    \cup [url : {PlainUrl},
          header : {Nil,
                    Some(<<"i", "n", "l", "i", "n", "e">>),
                    Some(FilenameKey \o <<";", " ", "x", "=", "y">>),
                    Some(FilenameKey \o <<"=", "\"", "\"">>),
                    Some(FilenameKey \o <<"=", "\"">> \o Level \o <<"\"">>)}]

\* the arguments and responses of a call.  The threads and the coroutines
\* all download a level that resolves to the same name, without a filename.
Requests(s) ==
    IF s # "sequential"
    THEN [filename : {Nil}, dir : {Dir, NoDir}, status : {200},
          response : {LevelUrlResponse}]
    ELSE [filename : {Nil, Some(Level), Some(Level2)}, dir : {Dir, NoDir},
          status : {200, 404}, response : Responses]

\* the name get_filename(r) yields for a response, Nil when it raises
Resolved(r) ==
    IF get_filename(r.url, r.header).ok
    THEN Some(get_filename(r.url, r.header).name) ELSE Nil

\* download_level(client, url, path, filename) is called and the response
\* headers arrive: `with client.stream('GET', url) as r`
Start(w) ==
    /\ pc[w] = "idle"
    /\ Runnable(w)
    /\ ncalls < MaxCalls
    /\ \E r \in Requests(sched), len \in 0..MaxChunks :
          call' = [call EXCEPT ![w] =
                      [filename |-> r.filename, dir |-> r.dir,
                       status |-> r.status, url |-> r.response.url,
                       header |-> r.response.header,
                       resolved |-> Resolved(r.response),
                       body |-> Body(ncalls + 1, len)]]
    /\ ncalls' = ncalls + 1
    /\ snap' = [snap EXCEPT ![w] = fs]
    /\ pc' = [pc EXCEPT ![w] = "status"]
    /\ UNCHANGED <<fs, nextIno, lastRename, lastCall, uz, sched, fs0, full_path, index,
                   fd, pos, err, cause, hist>>

\* r.raise_for_status()
RaiseForStatus(w) ==
    /\ pc[w] = "status"
    /\ Runnable(w)
    /\ IF is_error(call[w].status)
       THEN /\ err' = [err EXCEPT ![w] =
                          [type |-> "HTTPStatusError", origin |-> "status",
                           arg |-> <<>>]]
            /\ cause' = [cause EXCEPT ![w] = err'[w]]
            /\ pc' = [pc EXCEPT ![w] = "raised"]
       ELSE /\ pc' = [pc EXCEPT ![w] = "resolve"]
            /\ UNCHANGED <<err, cause>>
    /\ UNCHANGED <<fs, nextIno, lastRename, lastCall, uz, sched, fs0, ncalls, call,
                   full_path, index, fd, pos, snap, hist>>

\* the branch on filename: get_filename(r) and Path(path, url_filename),
\* or Path(path, filename)
Resolve(w) ==
    /\ pc[w] = "resolve"
    /\ Runnable(w)
    /\ IF UsesResolver(call[w].filename)
       THEN IF call[w].resolved = Nil
            THEN /\ err' = [err EXCEPT ![w] =
                               [type |-> "BadURLFilename",
                                origin |-> "get_filename",
                                arg |-> get_filename(call[w].url,
                                                     call[w].header).arg]]
                 /\ cause' = [cause EXCEPT ![w] = err'[w]]
                 /\ pc' = [pc EXCEPT ![w] = "raised"]
                 /\ UNCHANGED full_path
            ELSE /\ full_path' = [full_path EXCEPT ![w] =
                                     Path(call[w].dir, call[w].resolved[1])]
                 /\ pc' = [pc EXCEPT ![w] = "rename"]
                 /\ UNCHANGED <<err, cause>>
       ELSE /\ full_path' = [full_path EXCEPT ![w] =
                                Path(call[w].dir, call[w].filename[1])]
            /\ pc' = [pc EXCEPT ![w] = "open"]
            /\ UNCHANGED <<err, cause>>
    /\ UNCHANGED <<fs, nextIno, lastRename, lastCall, uz, sched, fs0, ncalls, call,
                   index, fd, pos, snap, hist>>

\* rename: `if not path.exists(): return path`, else index = 2
RenameExists(w) ==
    /\ pc[w] = "rename"
    /\ Runnable(w)
    /\ IF ~NeedsProbe(fs, full_path[w])
       THEN /\ fs' = renameEffect(fs, full_path[w])
            /\ pc' = [pc EXCEPT ![w] = "open"]
            /\ UNCHANGED index
       ELSE /\ index' = [index EXCEPT ![w] = 2]
            /\ pc' = [pc EXCEPT ![w] = "probe"]
            /\ UNCHANGED fs
    /\ UNCHANGED <<nextIno, lastRename, lastCall, uz, sched, fs0, ncalls, call, full_path,
                   fd, pos, err, cause, snap, hist>>

\* rename: one test of the while loop, then index += 1 or the return
RenameProbe(w) ==
    /\ pc[w] = "probe"
    /\ Runnable(w)
    /\ IF Exists(fs, Candidate(full_path[w], index[w]))
       THEN /\ index' = [index EXCEPT ![w] = index[w] + 1]
            /\ UNCHANGED <<fs, pc, full_path>>
       ELSE /\ full_path' = [full_path EXCEPT ![w] =
                                Candidate(full_path[w], index[w])]
            /\ fs' = renameEffect(fs, full_path'[w])
            /\ index' = [index EXCEPT ![w] = 0]
            /\ pc' = [pc EXCEPT ![w] = "open"]
    /\ UNCHANGED <<nextIno, lastRename, lastCall, uz, sched, fs0, ncalls, call, fd, pos,
                   err, cause, snap, hist>>

\* full_path.open('wb') succeeds: the file is created, or truncated if it
\* exists
OpenFile(w) ==
    /\ pc[w] = "open"
    /\ Runnable(w)
    /\ full_path[w].dir \in {Dir, Parent}
    /\ ~IsDir(fs, full_path[w])
    /\ LET name == Slot(full_path[w])
           ino == IF name \in DOMAIN fs THEN fs[name].ino ELSE nextIno
       IN  /\ fs' = Put(fs, name, File(ino, <<>>))
           /\ nextIno' = IF name \in DOMAIN fs THEN nextIno ELSE nextIno + 1
           /\ fd' = [fd EXCEPT ![w] = [open |-> TRUE, ino |-> ino, off |-> 0]]
    /\ pc' = [pc EXCEPT ![w] = "next"]
    /\ UNCHANGED <<lastRename, lastCall, uz, sched, fs0, ncalls, call, full_path, index,
                   pos, err, cause, snap, hist>>

\* full_path.open('wb') raises: the directory is missing, or is a file, or
\* the path is a directory
OpenFails(w) ==
    /\ pc[w] = "open"
    /\ Runnable(w)
    /\ full_path[w].dir = NoDir \/ IsDir(fs, full_path[w])
    /\ err' = [err EXCEPT ![w] =
                  [type |-> IF full_path[w].dir # NoDir THEN "IsADirectoryError"
                            ELSE IF Exists(fs, Path(NoDir, <<>>))
                            THEN "NotADirectoryError"
                            ELSE "FileNotFoundError",
                   origin |-> "open", arg |-> <<>>]]
    /\ cause' = [cause EXCEPT ![w] = err'[w]]
    /\ pc' = [pc EXCEPT ![w] = Handler(err'[w].type)]
    /\ UNCHANGED <<fs, nextIno, lastRename, lastCall, uz, sched, fs0, ncalls, call,
                   full_path, index, fd, pos, snap, hist>>

\* the body is exhausted: the file is closed, the stream is left and
\* full_path is returned
EndOfBody(w) ==
    /\ pc[w] = "next"
    /\ Runnable(w)
    /\ pos[w] = Len(call[w].body)
    /\ fd' = [fd EXCEPT ![w] = Closed]
    /\ pc' = [pc EXCEPT ![w] = "returned"]
    /\ UNCHANGED <<fs, nextIno, lastRename, lastCall, uz, sched, fs0, ncalls, call,
                   full_path, index, pos, err, cause, snap, hist>>

\* reading the next chunk raises (httpx.ReadError, a timeout, ...); the
\* with block closes the file
ReadFails(w) ==
    /\ pc[w] = "next"
    /\ Runnable(w)
    /\ err' = [err EXCEPT ![w] = [type |-> "ReadError", origin |-> "read",
                                  arg |-> <<>>]]
    /\ cause' = [cause EXCEPT ![w] = err'[w]]
    /\ fd' = [fd EXCEPT ![w] = Closed]
    /\ pc' = [pc EXCEPT ![w] = Handler(err'[w].type)]
    /\ UNCHANGED <<fs, nextIno, lastRename, lastCall, uz, sched, fs0, ncalls, call,
                   full_path, index, pos, snap, hist>>

\* a task of the event loop is cancelled, a blocking call is interrupted
CancelTypes(s) ==
    IF s = "threads" THEN {"KeyboardInterrupt"}
    ELSE {"CancelledError", "KeyboardInterrupt"}

\* the call is cancelled while it waits for the next chunk: the task is
\* cancelled (asyncio.CancelledError) or the blocking read is interrupted
\* (KeyboardInterrupt); the with block closes the file
Cancel(w) ==
    /\ pc[w] = "next"
    /\ Runnable(w)
    /\ \E type \in CancelTypes(sched) :
          err' = [err EXCEPT ![w] = [type |-> type, origin |-> "cancel",
                                     arg |-> <<>>]]
    /\ cause' = [cause EXCEPT ![w] = err'[w]]
    /\ fd' = [fd EXCEPT ![w] = Closed]
    /\ pc' = [pc EXCEPT ![w] = Handler(err'[w].type)]
    /\ UNCHANGED <<fs, nextIno, lastRename, lastCall, uz, sched, fs0, ncalls, call,
                   full_path, index, pos, snap, hist>>

\* `for chunk in r.iter_bytes()` yields a chunk and file.write(chunk)
\* writes it: the chunk goes to the inode the descriptor refers to, which
\* is visible in the directory only while the path still names it
WriteChunk(w) ==
    /\ pc[w] = "next"
    /\ Runnable(w)
    /\ pos[w] < Len(call[w].body)
    /\ LET name == Slot(full_path[w])
           chunk == call[w].body[pos[w] + 1]
       IN  fs' = IF name \in DOMAIN fs /\ fs[name].ino = fd[w].ino
                 THEN Put(fs, name,
                          File(fd[w].ino,
                               WriteAt(fs[name].data, fd[w].off, chunk)))
                 ELSE fs
    /\ fd' = [fd EXCEPT ![w].off = @ + 1]
    /\ pos' = [pos EXCEPT ![w] = @ + 1]
    /\ UNCHANGED <<nextIno, lastRename, lastCall, uz, sched, fs0, ncalls, pc, call,
                   full_path, index, err, cause, snap, hist>>

\* the iterator yields a chunk and file.write(chunk) raises (disk full,
\* I/O error); the with block closes the file
WriteFails(w) ==
    /\ pc[w] = "next"
    /\ Runnable(w)
    /\ pos[w] < Len(call[w].body)
    /\ err' = [err EXCEPT ![w] = [type |-> "OSError", origin |-> "write",
                                  arg |-> <<>>]]
    /\ cause' = [cause EXCEPT ![w] = err'[w]]
    /\ fd' = [fd EXCEPT ![w] = Closed]
    /\ pc' = [pc EXCEPT ![w] = Handler(err'[w].type)]
    /\ UNCHANGED <<fs, nextIno, lastRename, lastCall, uz, sched, fs0, ncalls, call,
                   full_path, index, pos, snap, hist>>

\* the handler: full_path.unlink() removes the file, then `raise e`
Cleanup(w) ==
    /\ pc[w] = "except"
    /\ Runnable(w)
    /\ IsFile(fs, full_path[w])
    /\ fs' = unlink(fs, full_path[w])
    /\ pc' = [pc EXCEPT ![w] = "raised"]
    /\ UNCHANGED <<nextIno, lastRename, lastCall, uz, sched, fs0, ncalls, call, full_path,
                   index, fd, pos, err, cause, snap, hist>>

\* the handler: full_path.unlink() itself raises, and that exception is the
\* one that leaves the handler.  Nothing to delete: FileNotFoundError.  A
\* directory: IsADirectoryError (Linux, EISDIR) or PermissionError (the
\* EPERM of POSIX, as on macOS); the platform decides.
CleanupFails(w) ==
    /\ pc[w] = "except"
    /\ Runnable(w)
    /\ ~IsFile(fs, full_path[w])
    /\ \E type \in IF IsDir(fs, full_path[w])
                   THEN {"IsADirectoryError", "PermissionError"}
                   ELSE {"FileNotFoundError"} :
          err' = [err EXCEPT ![w] = [type |-> type, origin |-> "unlink",
                                     arg |-> <<>>]]
    /\ pc' = [pc EXCEPT ![w] = "raised"]
    /\ UNCHANGED <<fs, nextIno, lastRename, lastCall, uz, sched, fs0, ncalls, call,
                   full_path, index, fd, pos, cause, snap, hist>>

\* a call is one of the k downloads of Level into the directory that
\* returned its path
CleanCall(w) ==
    /\ pc[w] = "returned"
    /\ call[w].filename = Nil
    /\ call[w].resolved = Some(Level)
    /\ call[w].dir = Dir

\* the caller has the result (the returned path or the exception) and goes on
Done(w) ==
    /\ pc[w] \in {"returned", "raised"}
    /\ Runnable(w)
    /\ hist' = IF sched = "threads" THEN hist
               ELSE Append(hist,
                      IF CleanCall(w)
                      THEN [clean |-> TRUE, path |-> full_path[w],
                            body |-> call[w].body]
                      ELSE [clean |-> FALSE, path |-> NoPath, body |-> <<>>])
    /\ pc' = [pc EXCEPT ![w] = "idle"]
    /\ call' = [call EXCEPT ![w] = NoCall]
    /\ full_path' = [full_path EXCEPT ![w] = NoPath]
    /\ pos' = [pos EXCEPT ![w] = 0]
    /\ err' = [err EXCEPT ![w] = NoError]
    /\ cause' = [cause EXCEPT ![w] = NoError]
    /\ snap' = [snap EXCEPT ![w] = <<>>]
    /\ UNCHANGED <<fs, nextIno, lastRename, lastCall, uz, sched, fs0, ncalls, index, fd>>

Next ==
    \/ \E w \in Workers : Start(w)
    \/ \E w \in Workers : RaiseForStatus(w)
    \/ \E w \in Workers : Resolve(w)
    \/ \E w \in Workers : RenameExists(w)
    \/ \E w \in Workers : RenameProbe(w)
    \/ \E w \in Workers : OpenFile(w)
    \/ \E w \in Workers : OpenFails(w)
    \/ \E w \in Workers : EndOfBody(w)
    \/ \E w \in Workers : ReadFails(w)
    \/ \E w \in Workers : Cancel(w)
    \/ \E w \in Workers : WriteChunk(w)
    \/ \E w \in Workers : WriteFails(w)
    \/ \E w \in Workers : Cleanup(w)
    \/ \E w \in Workers : CleanupFails(w)
    \/ \E w \in Workers : Done(w)

\* one caller, one call at a time
Spec == Init /\ [][Next]_vars

\* two threads calling download_level concurrently
SpecThreads == InitThreads /\ [][Next]_vars

\* two coroutines calling async_download_level on one event loop, as
\* asyncio.gather runs them
SpecAsync == InitCoroutines /\ [][Next]_vars

----------------------------------------------------------------------------
(* Standalone use of rename, as in test_rename: another process (or the    *)
(* test itself) creates and deletes entries between the calls.             *)

TestAsdf == <<"t", ".", "x">>
Plain == <<"a">>
Numbered == <<"a", " ", "(", "2", ")">>

RenamePaths == {Path(Dir, TestAsdf), Path(Dir, Plain), Path(Dir, Numbered)}

TouchNames ==
    {TestAsdf, Plain}
    \cup {Candidate(Path(Dir, n), i).name :
             n \in {TestAsdf, Plain}, i \in 2..MaxIndex}

InitRename == InitWith("sequential", {Dir0})

\* Path.touch()
Touch(name) ==
    /\ name \notin DOMAIN fs
    /\ fs' = Put(fs, name, File(0, <<>>))
    /\ lastRename' = Nil
    /\ UNCHANGED <<nextIno, dlvars>>

\* Path.mkdir()
Mkdir(name) ==
    /\ name \notin DOMAIN fs
    /\ fs' = Put(fs, name, Directory(0))
    /\ lastRename' = Nil
    /\ UNCHANGED <<nextIno, dlvars>>

\* Path.unlink() / Path.rmdir() by the test or another process
Delete(name) ==
    /\ name \in DOMAIN fs
    /\ fs' = Remove(fs, name)
    /\ lastRename' = Nil
    /\ UNCHANGED <<nextIno, dlvars>>

\* renamed = pyvitals.rename(path)
CallRename(path) ==
    /\ fs' = renameEffect(fs, path)
    /\ lastRename' = Some([path |-> path, result |-> rename(fs, path),
                           before |-> fs, after |-> fs'])
    /\ UNCHANGED <<nextIno, dlvars>>

NextRename ==
    \/ \E name \in TouchNames : Touch(name)
    \/ \E name \in TouchNames : Mkdir(name)
    \/ \E name \in TouchNames : Delete(name)
    \/ \E path \in RenamePaths : CallRename(path)

SpecRename == InitRename /\ [][NextRename]_vars

----------------------------------------------------------------------------
(* Standalone use of get_filename, as get_filename_from_url uses it: the   *)
(* url and the Content-Disposition header of a response are the input.     *)

Host == <<"h", "/">>
Rdzip == <<"L">> \o Ext

\* a discord style url; one with a query after the file name; urls whose
\* query ends with the extension; a url that names no file; a url whose
\* last segment has a character Windows rejects
Urls ==
    { Host \o Rdzip,
      Host \o Rdzip \o <<"?", "k">>,
      Host \o <<"d", "?", "f", "=">> \o Rdzip,
      Host \o <<"d", "?", "f", "=", "/">> \o Rdzip,
      Host \o <<"d">>,
      Host \o <<"a", ":">> \o Rdzip }

\* Content-Disposition values: disposition type, parameter name, '=', the
\* value, further parameters.  The values: bare, double quoted, single
\* quoted, empty, quoted empty, quoted with a separator inside, an unclosed
\* quote, a quote of the other kind inside the quotes.  And headers without
\* the parameter, or with the parameter name but no value.
Headers ==
    { pre \o key \o <<"=">> \o val \o post :
        pre \in {<<>>, <<"a", ";", " ">>},
        key \in {FilenameKey, FilenameKey \o <<"*">>, <<"n", "a", "m", "e">>},
        val \in { <<"L", ".", "z">>,
                  <<"\"", "L", ".", "z", "\"">>,
                  <<"'", "L", ".", "z", "'">>,
                  <<>>,
                  <<"\"", "\"">>,
                  <<"\"", "a", "/", "b", "\"">>,
                  <<"\"", "L">>,
                  <<"'", "a", "\"", "b", "'">> },
        post \in {<<>>, <<";", " ", "x">>} }
    \cup {<<"i", "n", "l", "i", "n", "e">>,
          FilenameKey \o <<";", " ", "x", "=", "y">>,
          FilenameKey \o <<";", " ">> \o FilenameKey \o <<"=", "b">>}

InitFilename == InitWith("sequential", {Dir0})

\* filename = get_filename(r)
CallGetFilename(url, header) ==
    /\ lastCall' = Some([fn |-> "get_filename", url |-> url,
                         header |-> header,
                         out |-> get_filename(url, header)])
    /\ UNCHANGED <<fs, nextIno, lastRename, uz, sched, fs0, ncalls, pc, call,
                   full_path, index, fd, pos, err, cause, snap, hist>>

NextFilename ==
    \E url \in Urls, header \in {Nil} \cup {Some(h) : h \in Headers} :
        CallGetFilename(url, header)

SpecFilename == InitFilename /\ [][NextFilename]_vars

----------------------------------------------------------------------------
(* One call of an extracting entry point, and next to it the same call of  *)
(* its cooperatively scheduled twin on the same directory and archive.  For *)
(* the entry points that download, the call starts when download_level has *)
(* returned the archive's path.                                            *)

\* the directories a call may find: empty, a file or a directory with the
\* name of a member, a file with the name of the subfolder
InitUnzip ==
    InitWith("sequential",
             {Dir0, Put(Dir0, Song, File(1, <<99>>)),
              Put(Dir0, Song, Directory(1)),
              Put(Dir0, Stem(Level), File(1, <<99>>))})

\* what a step of the call leaves alone
others == <<fs, nextIno, lastRename, lastCall, sched, fs0, ncalls, pc, call,
            full_path, index, fd, pos, err, cause, snap, hist>>

UnzipStart(entry, a, create_subfolder) ==
    /\ \A s \in Styles : uz[s].pc = "idle"
    /\ create_subfolder => entry \in {"unzip_level", "download_unzip"}
    /\ uz' = [s \in Styles |->
                IF s = "blocking"
                THEN Begin(entry, a, create_subfolder, fs, nextIno, Level)
                ELSE IF entry \in {"download_unzip", "parse_url"}
                THEN Begin(AsyncOf(entry), a, create_subfolder, fs, nextIno,
                           Level)
                ELSE NoUnzip]
    /\ UNCHANGED others

\* `if not is_zipfile(input_path): raise BadRDZipFile(...)`
IsZipfile(s) ==
    /\ uz[s].pc = "is_zipfile"
    /\ uz' = [uz EXCEPT ![s] =
                IF is_zipfile(uz[s].archive) THEN [uz[s] EXCEPT !.pc = "ZipFile"]
                ELSE [LeaveTemp(uz[s]) EXCEPT
                        !.pc = "raised",
                        !.cause = "not a zip file",
                        !.err = UnzipError("BadRDZipFile",
                                           Some(uz[s].input_path))]]
    /\ UNCHANGED others

\* `with ZipFile(path, 'r') as zip:` reads the central directory
OpenZip(s) ==
    /\ uz[s].pc = "ZipFile"
    /\ uz' = [uz EXCEPT ![s] =
                IF uz[s].archive.kind = "zip"
                THEN [uz[s] EXCEPT !.pc = "extractall"]
                ELSE RaiseInExtract(uz[s], "BadZipFile")]
    /\ UNCHANGED others

\* one member of zip.extractall(output_path): an OSError comes from making
\* or opening the target, a bad CRC is seen when the data has been written
ExtractMember(s) ==
    /\ uz[s].pc = "extractall"
    /\ uz[s].next <= Len(uz[s].archive.members)
    /\ uz' = [uz EXCEPT ![s] =
                LET m == uz[s].archive.members[uz[s].next]
                    fault == Fault(uz[s], m)
                IN  IF fault = "none"
                    THEN [Written(uz[s], m) EXCEPT !.next = @ + 1]
                    ELSE IF fault = "BadZipFile"
                    THEN RaiseInExtract(Written(uz[s], m), fault)
                    ELSE RaiseInExtract(uz[s], fault)]
    /\ UNCHANGED others

\* extractall has returned: unzip_level returns, and the parsing entry
\* points go on to parse_level
ExtractDone(s) ==
    /\ uz[s].pc = "extractall"
    /\ uz[s].next > Len(uz[s].archive.members)
    /\ uz' = [uz EXCEPT ![s] =
                IF Parses(uz[s].entry) THEN [uz[s] EXCEPT !.pc = "parse_level"]
                ELSE [LeaveTemp(uz[s]) EXCEPT !.pc = "returned",
                                              !.result = Some(uz[s].out)]]
    /\ UNCHANGED others

\* parse_level(<extracted>/main.rdlevel): open() of a missing file raises
\* FileNotFoundError, outside unzip_level
ParseMain(s) ==
    /\ uz[s].pc = "parse_level"
    /\ uz' = [uz EXCEPT ![s] =
                IF MainRdlevel \in uz[s].inside
                THEN [LeaveTemp(uz[s]) EXCEPT !.pc = "returned",
                                              !.result = Some(uz[s].out)]
                ELSE [LeaveTemp(uz[s]) EXCEPT
                        !.pc = "raised",
                        !.cause = "FileNotFoundError",
                        !.err = UnzipError("FileNotFoundError", Nil)]]
    /\ UNCHANGED others

NextUnzip ==
    \/ \E entry \in {"unzip_level", "download_unzip", "parse_url",
                     "parse_rdzip"},
          a \in Archives, create_subfolder \in BOOLEAN :
          UnzipStart(entry, a, create_subfolder)
    \/ \E s \in Styles : IsZipfile(s)
    \/ \E s \in Styles : OpenZip(s)
    \/ \E s \in Styles : ExtractMember(s)
    \/ \E s \in Styles : ExtractDone(s)
    \/ \E s \in Styles : ParseMain(s)

SpecUnzip == InitUnzip /\ [][NextUnzip]_vars

----------------------------------------------------------------------------
(* unzip_level of the py-vitals package, the in-place pattern: the archive *)
(* at `path` is extracted into a scratch directory next to it, deleted, and *)
(* the scratch directory is renamed to `path`.  The call is kept in        *)
(* lastCall: its position, the directory, and what the extracted directory *)
(* holds.                                                                  *)

RECURSIVE replace_ext(_)
\* path.replace('.rdzip', ''): every occurrence is taken out
replace_ext(name) ==
    IF name = <<>> THEN <<>>
    ELSE IF Len(name) >= Len(Ext) /\ SubSeq(name, 1, Len(Ext)) = Ext
    THEN replace_ext(SubSeq(name, Len(Ext) + 1, Len(name)))
    ELSE <<Head(name)>> \o replace_ext(Tail(name))

\* a statement wrapped in `except Exception: pass`
Uncaught_swallowed(r, step, type) ==
    [r EXCEPT !.pc = "returned", !.failed = step]

\* unzip_level has no try statement: an exception raised by one of its
\* statements ends the call and reaches the caller
Uncaught(r, step, type) ==
    [r EXCEPT !.pc = "raised", !.err = type, !.failed = step]

\* the first member whose extraction fails, 0 when none does
FirstFault(ms) ==
    IF \E i \in 1..Len(ms) : ms[i].fault # "none"
    THEN CHOOSE i \in 1..Len(ms) :
            /\ ms[i].fault # "none"
            /\ \A j \in 1..(i - 1) : ms[j].fault = "none"
    ELSE 0

\* what shutil.unpack_archive has written when it ends: every member
\* before the first one that fails, and that one too when only its data is
\* bad
Unpacked(ms) ==
    LET k == FirstFault(ms)
    IN  {ms[i].name : i \in 1..(IF k = 0 THEN Len(ms) ELSE k - 1)}
        \cup (IF k # 0 /\ ms[k].fault = "BadZipFile" THEN {ms[k].name}
              ELSE {})

\* unzip_level(path) is called: the archive is at path; the scratch name
\* may be taken already
LegacyStart(path, a, taken) ==
    /\ lastCall = Nil
    /\ lastCall' =
          Some([fn |-> "py-vitals.unzip_level", pc |-> "mkdir", path |-> path,
                extension_less_path |-> replace_ext(path), archive |-> a,
                fs |-> IF taken
                       THEN Put(Put(<<>>, replace_ext(path), Directory(2)),
                                path, File(1, <<a.kind>>))
                       ELSE Put(<<>>, path, File(1, <<a.kind>>)),
                inside |-> {}, err |-> "", failed |-> ""])
    /\ UNCHANGED <<fs, nextIno, lastRename, uz, sched, fs0, ncalls, pc, call,
                   full_path, index, fd, pos, err, cause, snap, hist>>

\* os.mkdir(extension_less_path)
LegacyMkdir ==
    /\ lastCall # Nil
    /\ lastCall[1].fn = "py-vitals.unzip_level"
    /\ lastCall[1].pc = "mkdir"
    /\ LET r == lastCall[1]
       IN  lastCall' =
              Some(IF r.extension_less_path \in DOMAIN r.fs
                   THEN Uncaught(r, "mkdir", "FileExistsError")
                   ELSE [r EXCEPT !.pc = "unpack",
                                  !.fs = Put(r.fs, r.extension_less_path,
                                             Directory(3))])
    /\ UNCHANGED <<fs, nextIno, lastRename, uz, sched, fs0, ncalls, pc, call,
                   full_path, index, fd, pos, err, cause, snap, hist>>

\* shutil.unpack_archive(path, extension_less_path, format="zip"):
\* shutil.ReadError when the file is not a zip file, BadZipFile when its
\* central directory is broken, and what a member runs into
LegacyUnpack ==
    /\ lastCall # Nil
    /\ lastCall[1].fn = "py-vitals.unzip_level"
    /\ lastCall[1].pc = "unpack"
    /\ LET r == lastCall[1]
           ms == r.archive.members
           k == FirstFault(ms)
       IN  lastCall' =
              Some(IF ~is_zipfile(r.archive)
                   THEN Uncaught(r, "unpack", "ReadError")
                   ELSE IF r.archive.kind = "badcentral"
                   THEN Uncaught(r, "unpack", "BadZipFile")
                   ELSE IF k # 0
                   THEN Uncaught([r EXCEPT !.inside = Unpacked(ms)],
                                 "unpack", ms[k].fault)
                   ELSE [r EXCEPT !.pc = "remove", !.inside = Unpacked(ms)])
    /\ UNCHANGED <<fs, nextIno, lastRename, uz, sched, fs0, ncalls, pc, call,
                   full_path, index, fd, pos, err, cause, snap, hist>>

\* os.remove(path); the system may refuse (the file is in use, the
\* directory is read-only)
LegacyRemove ==
    /\ lastCall # Nil
    /\ lastCall[1].fn = "py-vitals.unzip_level"
    /\ lastCall[1].pc = "remove"
    /\ \E refused \in BOOLEAN :
          LET r == lastCall[1]
          IN  lastCall' =
                 Some(IF refused THEN Uncaught(r, "remove", "PermissionError")
                      ELSE [r EXCEPT !.pc = "rename",
                                     !.fs = Remove(r.fs, r.path)])
    /\ UNCHANGED <<fs, nextIno, lastRename, uz, sched, fs0, ncalls, pc, call,
                   full_path, index, fd, pos, err, cause, snap, hist>>

\* os.rename(extension_less_path, path); the system may refuse
LegacyRename ==
    /\ lastCall # Nil
    /\ lastCall[1].fn = "py-vitals.unzip_level"
    /\ lastCall[1].pc = "rename"
    /\ \E refused \in BOOLEAN :
          LET r == lastCall[1]
          IN  lastCall' =
                 Some(IF refused THEN Uncaught(r, "rename", "OSError")
                      ELSE [r EXCEPT
                              !.pc = "returned",
                              !.fs = Put(Remove(r.fs, r.extension_less_path),
                                         r.path,
                                         r.fs[r.extension_less_path])])
    /\ UNCHANGED <<fs, nextIno, lastRename, uz, sched, fs0, ncalls, pc, call,
                   full_path, index, fd, pos, err, cause, snap, hist>>

NextLegacy ==
    \/ \E path \in {Level, Stem(Level)}, a \in Archives, taken \in BOOLEAN :
          LegacyStart(path, a, taken)
    \/ LegacyMkdir
    \/ LegacyUnpack
    \/ LegacyRemove
    \/ LegacyRename

InitLegacy == InitWith("sequential", {Dir0})

SpecLegacy == InitLegacy /\ [][NextLegacy]_vars

----------------------------------------------------------------------------
(* Standalone use of parse_level: the level document is one mapping, whose *)
(* pairs are written as Rhythm Doctor writes them, `"key": value`, each    *)
(* followed by a comma, by a space only, by a newline only, or by a tab    *)
(* and a space.  The file may begin with a byte order mark.                *)

Quoted(s) == <<"\"">> \o s \o <<"\"">>

\* a value as it is written, what it stands for, and its shape
Token(text, val, shape) == [text |-> text, val |-> val, shape |-> shape]

\* integers in and out of [0,100], an alphanumeric string, a string with a
\* tab inside that reads `: 5 ` without it, a string with a form feed
\* (U+000C, a control character that is not JSON whitespace) inside, an
\* array of integers in [0,3], a literal
Tokens ==
    {Token(Str(5), Val("int", 5), "int100"),
     Token(Str(100), Val("int", 100), "int100"),
     Token(Str(101), Val("int", 101), "int"),
     Token(Quoted(<<"a", "b", "c">>), Val("str", <<"a", "b", "c">>), "alnum"),
     Token(Quoted(<<":", " ", "5", "\t", " ">>),
           Val("str", <<":", " ", "5", " ">>), "string"),
     Token(Quoted(<<"a", "\f", "b">>), Val("str", <<"a", "b">>), "control"),
     Token(<<"[", "0", ",", " ", "1", "]">>,
           Val("arr", <<Val("int", 0), Val("int", 1)>>), "array3"),
     Token(<<"t", "r", "u", "e">>, Val("lit", "true"), "literal")}

\* what follows a pair: a comma, a space only, a newline only, a tab and a
\* space
Comma == <<",", " ">>
Space == <<" ">>
TabSpace == <<"\t", " ">>

Documents ==
    UNION {[1..n -> [value : Tokens,
                     sep : {Comma, Space, <<"\n">>, TabSpace}]] :
             n \in 1..MaxPairs}

Key(i) ==
    IF i = 1 THEN <<"d", "i", "f", "f", "i", "c", "u", "l", "t", "y">>
    ELSE IF i = 2 THEN <<"t", "a", "g", "s">>
    ELSE <<"k">> \o Str(i)

RECURSIVE PairsText(_, _)
PairsText(doc, i) ==
    IF i > Len(doc) THEN <<>>
    ELSE Quoted(Key(i)) \o <<":", " ">> \o doc[i].value.text \o doc[i].sep
         \o PairsText(doc, i + 1)

\* the text of the document
Text(doc) == <<"{">> \o PairsText(doc, 1) \o <<"}">>

InitParse == InitWith("sequential", {Dir0})

\* parse_level keeps nothing between two calls: a run is one call
CallParseLevel(doc, bom) ==
    /\ lastCall = Nil
    /\ LET file == (IF bom THEN <<BOM>> ELSE <<>>) \o Text(doc)
       IN  lastCall' =
              Some([fn |-> "parse_level", doc |-> doc, file |-> file,
                    text |-> utf_8_sig(file),
                    fixed |-> fix_commas(utf_8_sig(file)),
                    stripped |-> fix_newlines(fix_commas(utf_8_sig(file))),
                    out |-> parse_level(file)])
    /\ UNCHANGED <<fs, nextIno, lastRename, uz, sched, fs0, ncalls, pc, call,
                   full_path, index, fd, pos, err, cause, snap, hist>>

\* the documents are drawn only while the call is still to be made
NextParse ==
    \E doc \in (IF lastCall = Nil THEN Documents ELSE {}), bom \in BOOLEAN :
        CallParseLevel(doc, bom)

SpecParse == InitParse /\ [][NextParse]_vars

----------------------------------------------------------------------------
(* Properties of rename *)

\* '{stem} ({n}){extension}', written out
Numbering(path, n) ==
    Path(path.dir,
         Stem(path.name) \o <<" ", "(">> \o Str(n) \o <<")">>
            \o Suffix(path.name))

\* C4: when the desired path exists, rename returns '{stem} ({n}){extension}'
\* for the smallest n >= 2 at which no file or directory exists in the
\* directory as it is at the time of the call.
C4_LowestFreeIndex ==
    \A r \in {lastRename[i] : i \in 1..Len(lastRename)} :
        Exists(r.before, r.path) =>
            \E n \in 2..(Cardinality(DOMAIN r.before) + 2) :
                /\ r.result = Numbering(r.path, n)
                /\ ~Exists(r.before, Numbering(r.path, n))
                /\ \A m \in 2..(n - 1) : Exists(r.before, Numbering(r.path, m))

\* the desired path, its numbers 2 and 4 exist, number 3 was deleted or
\* never made: the call returns number 3
C4_Witness ==
    /\ lastRename # Nil
    /\ lastRename[1].path = Path(Dir, TestAsdf)
    /\ Exists(lastRename[1].before, lastRename[1].path)
    /\ IsDir(lastRename[1].before, Numbering(lastRename[1].path, 2))
    /\ Exists(lastRename[1].before, Numbering(lastRename[1].path, 4))
    /\ lastRename[1].result = Numbering(lastRename[1].path, 3)

\* C5: rename returns a desired path at which nothing exists unchanged, and
\* in every case the directory after the call is the directory before it.
C5_IdentityAndPure ==
    \A r \in {lastRename[i] : i \in 1..Len(lastRename)} :
        /\ r.after = r.before
        /\ ~Exists(r.before, r.path) => r.result = r.path

\* nothing at the desired path while numbered neighbours exist
C5_Witness ==
    /\ lastRename # Nil
    /\ ~Exists(lastRename[1].before, lastRename[1].path)
    /\ Exists(lastRename[1].before, Numbering(lastRename[1].path, 2))
    /\ lastRename[1].result = lastRename[1].path
    /\ fs = lastRename[1].before

----------------------------------------------------------------------------
(* Properties of a download *)

\* C1: when reading a chunk or writing it to the file raises an Exception,
\* no file exists at the destination path once the caller has the error.
C1_PartialFileDeleted ==
    \A w \in Workers :
        (pc[w] = "raised" /\ cause[w].origin \in {"read", "write"})
            => ~Exists(fs, full_path[w])

\* a call fails after it wrote at least one chunk
C1_Witness ==
    \E w \in Workers :
        /\ pc[w] = "raised"
        /\ cause[w].origin \in {"read", "write"}
        /\ pos[w] >= 1
        /\ ~Exists(fs, full_path[w])

\* C2: when a call is cancelled in the chunk loop, after the destination
\* file was opened, no file exists at the destination path once the caller
\* has the cancellation.
C2_CancelRemovesPartialFile ==
    \A w \in Workers :
        (pc[w] = "raised" /\ cause[w].origin = "cancel")
            => ~Exists(fs, full_path[w])

\* C3: for every failure inside the guarded write block, opening the file
\* included, the exception that reaches the caller has the type of the
\* exception that caused the failure.
C3_OriginalErrorReachesCaller ==
    \A w \in Workers :
        (pc[w] = "raised" /\ cause[w].origin \in {"open", "read", "write"})
            => err[w].type = cause[w].type

\* C6: a call without a filename returns a path at which nothing existed
\* when the call began and leaves every earlier entry as it was; k such
\* calls for the same name, into a directory that holds none of its
\* candidates, return the name and its numbers 2..k, and each file holds
\* the body of its own call.
C6_FreshDistinctPaths ==
    /\ \A w \in Workers :
          (pc[w] = "returned" /\ call[w].filename = Nil) =>
              /\ ~Exists(snap[w], full_path[w])
              /\ \A n \in DOMAIN snap[w] :
                    n \in DOMAIN fs /\ fs[n] = snap[w][n]
    /\ ( /\ fs0 = Dir0
         /\ \A w \in Workers : pc[w] = "idle"
         /\ \A i \in 1..Len(hist) : hist[i].clean )
       => \A i \in 1..Len(hist) :
             /\ hist[i].path = IF i = 1 THEN Path(Dir, Level)
                               ELSE Numbering(Path(Dir, Level), i)
             /\ IsFile(fs, hist[i].path)
             /\ fs[Slot(hist[i].path)].data = hist[i].body

\* two downloads of the same name have returned, the second to number 2
C6_Witness ==
    /\ fs0 = Dir0
    /\ \A w \in Workers : pc[w] = "idle"
    /\ Len(hist) >= 2
    /\ \A i \in 1..Len(hist) : hist[i].clean
    /\ hist[2].path = Numbering(Path(Dir, Level), 2)
    /\ hist[1].body # <<>>

\* C7: the allocator reserves nothing: when rename returns inside
\* download_level, the directory is as it was and nothing exists at the
\* returned path, so that (witness) two threads can be given the same path
\* and both open it.
C7_NothingReserved ==
    [][\A w \in Workers :
          (pc[w] \in {"rename", "probe"} /\ pc'[w] = "open") =>
              (fs' = fs /\ ~Exists(fs', full_path'[w]))]_vars

\* both threads hold the same destination open for writing
C7_Witness ==
    \E v, w \in Workers :
        /\ v # w
        /\ pc[v] = "next" /\ pc[w] = "next"
        /\ call[v].filename = Nil /\ call[w].filename = Nil
        /\ full_path[v] = full_path[w]
        /\ fd[v].open /\ fd[w].open /\ fd[v].ino = fd[w].ino

\* C8: when the status of the response is an error, the call raises
\* HTTPStatusError straight after the status check and the directory is as
\* it was when the call began.
C8_StatusShortCircuits ==
    \A w \in Workers :
        (call[w].status >= 400 /\ pc[w] \notin {"idle", "status"}) =>
            /\ pc[w] = "raised"
            /\ err[w].type = "HTTPStatusError"
            /\ fs = snap[w]

\* an error status for a call that names an existing file
C8_Witness ==
    \E w \in Workers :
        /\ pc[w] = "raised"
        /\ err[w].type = "HTTPStatusError"
        /\ call[w].filename = Some(Level) /\ call[w].dir = Dir
        /\ IsFile(fs, Path(Dir, Level))
        /\ fs[Level].data = <<99>>

\* C9: a call with a filename that returns has written to exactly
\* <path>/<filename>, whatever the resolver would have answered and whatever
\* existed there, and the file holds the downloaded body only.
C9_FilenameIsDestination ==
    \A w \in Workers :
        (pc[w] = "returned" /\ call[w].filename # Nil) =>
            /\ full_path[w] = Path(call[w].dir, call[w].filename[1])
            /\ IsFile(fs, full_path[w])
            /\ fs[Slot(full_path[w])].data = call[w].body

\* the file existed with other content and the response names no file
C9_Witness ==
    \E w \in Workers :
        /\ pc[w] = "returned"
        /\ call[w].filename = Some(Level)
        /\ call[w].resolved = Nil
        /\ IsFile(snap[w], Path(Dir, Level))
        /\ snap[w][Level].data = <<99>>
        /\ Len(call[w].body) = MaxChunks
        /\ fs[Level].data = call[w].body

\* C10: after a call that ended in an error the directory is as it was when
\* the call began: every earlier file is there with its content and there
\* is no new file.
C10_FailedCallChangesNothing ==
    \A w \in Workers : pc[w] = "raised" => fs = snap[w]

----------------------------------------------------------------------------
(* Properties of get_filename *)

GetFilenameCalls ==
    {lastCall[i] : i \in {j \in 1..Len(lastCall) :
                             lastCall[j].fn = "get_filename"}}

IllegalSet == {"<", ">", ":", "\"", "/", "\\", "|", "?", "*"}

\* s without the characters of the illegal set, the others in their order
Clean(s) == SelectSeq(s, LAMBDA c : c \notin IllegalSet)

\* the part of s after its last '/', s itself when it has none
AfterLastSlash(s) ==
    LET k == CHOOSE k \in 0..Len(s) :
                 /\ k = 0 \/ s[k] = "/"
                 /\ \A j \in (k + 1)..Len(s) : s[j] # "/"
    IN  SubSeq(s, k + 1, Len(s))

\* the url up to its query string
WithoutQuery(s) ==
    LET k == CHOOSE k \in 1..(Len(s) + 1) :
                 /\ k = Len(s) + 1 \/ s[k] = "?"
                 /\ \A j \in 1..(k - 1) : s[j] # "?"
    IN  SubSeq(s, 1, k - 1)

C13_NonEmptyNoSeparator ==
    \A r \in GetFilenameCalls :
        r.out.ok =>
            /\ r.out.name # <<>>
            /\ \A i \in 1..Len(r.out.name) : r.out.name[i] \notin {"/", "\\"}

\* where the value of the first filename parameter of a header begins: the
\* position after the '=' that follows `filename` with no ';', '=' or
\* newline in between; 0 when the header has no such parameter
ValueStart(h) ==
    LET starts ==
            {g \in 2..(Len(h) + 1) :
                /\ h[g - 1] = "="
                /\ \E s \in 1..(g - 9) :
                      /\ SubSeq(h, s, s + 7) = FilenameKey
                      /\ \A j \in (s + 8)..(g - 2) :
                            h[j] \notin {";", "=", "\n"}}
    IN  IF starts = {} THEN 0
        ELSE CHOOSE g \in starts : \A k \in starts : g <= k

\* the positions at which the quote that opens the value occurs again
ClosingQuotes(h) ==
    LET g == ValueStart(h)
    IN  IF g = 0 \/ g > Len(h) \/ h[g] \notin {"'", "\""} THEN {}
        ELSE {k \in (g + 1)..Len(h) : h[k] = h[g]}

\* C14: the name taken from a quoted filename value, single or double
\* quoted, is the text between the quotes, sanitized; the name taken from an
\* unquoted value is the text up to the next ';' or the end of the line,
\* sanitized.
C14_QuotedValueUnquoted ==
    \A r \in GetFilenameCalls :
        (/\ ~endswith(r.url, Ext)
         /\ r.header # Nil
         /\ ValueStart(r.header[1]) # 0) =>
            LET h == r.header[1]
                g == ValueStart(h)
                closing == ClosingQuotes(h)
                k == CHOOSE k \in closing : \A j \in closing : k <= j
                stops == {i \in g..Len(h) : h[i] \in {";", "\n"}}
                e == IF stops = {} THEN Len(h) + 1
                     ELSE CHOOSE i \in stops : \A j \in stops : i <= j
            IN  /\ closing # {} =>
                      (r.out.ok /\ r.out.name = Clean(SubSeq(h, g + 1, k - 1)))
                /\ (g > Len(h) \/ h[g] \notin {"'", "\""}) =>
                      (r.out.ok /\ r.out.name = Clean(SubSeq(h, g, e - 1)))

\* a header has a filename parameter in the sense of the pattern
HasFilenameParam(header) == header # Nil /\ ValueStart(header[1]) # 0

\* C12: a download without a filename whose url does not end with '.rdzip'
\* and whose response has no Content-Disposition header, or one without a
\* filename parameter, raises BadURLFilename carrying the url, no name is
\* made up, and the directory is as it was when the call began.
C12_NoNameIsAnError ==
    \A w \in Workers :
        (/\ pc[w] \notin {"idle", "status", "resolve"}
         /\ call[w].status < 400
         /\ call[w].filename = Nil
         /\ ~endswith(call[w].url, Ext)
         /\ ~HasFilenameParam(call[w].header)) =>
            /\ pc[w] = "raised"
            /\ err[w] = [type |-> "BadURLFilename", origin |-> "get_filename",
                         arg |-> call[w].url]
            /\ fs = snap[w]

\* the header is there but has no filename parameter, and the directory
\* holds a level
C12_Witness ==
    \E w \in Workers :
        /\ pc[w] = "raised"
        /\ err[w].type = "BadURLFilename"
        /\ err[w].arg = PlainUrl
        /\ call[w].header = Some(FilenameKey \o <<";", " ", "x", "=", "y">>)
        /\ IsFile(fs, Path(Dir, Level))


----------------------------------------------------------------------------
(* Properties of the extracting entry points *)

Finished(u) == u.pc \in {"raised", "returned"}

\* a member name is in the output of the call, and was there before it
InOutput(u, name) ==
    IF u.out.where = "dir" THEN name \in DOMAIN u.fs ELSE name \in u.inside
InOutputBefore(u, name) == u.out.where = "dir" /\ name \in DOMAIN u.before

MemberNames(u) ==
    {u.archive.members[i].name : i \in 1..Len(u.archive.members)}

\* C15: given a file that is not an archive, every extracting entry point
\* fails with BadRDZipFile carrying the input path, and leaves no output
\* directory and no extracted content.
C15_NonArchiveRejected ==
    \A s \in Styles :
        (Finished(uz[s]) /\ uz[s].archive.kind = "notzip") =>
            /\ uz[s].pc = "raised"
            /\ uz[s].err = [type |-> "BadRDZipFile",
                            file_path |-> Some(uz[s].input_path)]
            /\ uz[s].fs = uz[s].before
            /\ uz[s].inside = {}
            /\ ~uz[s].tmp

\* C16: when unpacking a zip file fails with an OS error, unzip_level,
\* download_unzip and async_download_unzip raise BadRDZipFile carrying the
\* input path; no OS error reaches their caller.
C16_OSErrorBecomesBadRDZipFile ==
    \A s \in Styles :
        (/\ uz[s].entry \in {"unzip_level", "download_unzip",
                             "async_download_unzip"}
         /\ uz[s].pc = "raised") =>
            /\ uz[s].err.type \notin
                  {"OSError", "FileExistsError", "FileNotFoundError",
                   "IsADirectoryError", "NotADirectoryError",
                   "PermissionError"}
            /\ uz[s].cause \in
                  {"OSError", "FileExistsError", "FileNotFoundError",
                   "IsADirectoryError", "NotADirectoryError",
                   "PermissionError"} =>
                  uz[s].err = [type |-> "BadRDZipFile",
                               file_path |-> Some(uz[s].input_path)]

\* the second member of the archive could not be written where a directory
\* of its name is
C16_Witness ==
    /\ uz["blocking"].entry = "download_unzip"
    /\ uz["blocking"].pc = "raised"
    /\ uz["blocking"].archive.kind = "zip"
    /\ uz["blocking"].next = 2
    /\ uz["blocking"].cause = "IsADirectoryError"
    /\ uz["blocking"].err.type = "BadRDZipFile"

\* C17: after unzip_level / download_unzip has raised, the output holds no
\* member of the archive that was not there before the call, and a
\* subfolder allocated for the call does not exist.
C17_FailedOutputRemoved ==
    \A s \in Styles :
        (/\ uz[s].entry \in {"unzip_level", "download_unzip",
                             "async_download_unzip"}
         /\ uz[s].pc = "raised") =>
            /\ \A name \in MemberNames(uz[s]) :
                  InOutput(uz[s], name) => InOutputBefore(uz[s], name)
            /\ (uz[s].create_subfolder /\ uz[s].entry # "unzip_level") =>
                  uz[s].out.name \notin DOMAIN uz[s].fs

\* C18: the blocking entry point and its cooperatively scheduled twin, run
\* on the same directory and the same archive, end the same way: the same
\* result, the same directory and, on failure, the same kind of error.
C18_StylesAgree ==
    (Finished(uz["blocking"]) /\ Finished(uz["async"])) =>
        /\ uz["blocking"].pc = uz["async"].pc
        /\ uz["blocking"].result = uz["async"].result
        /\ uz["blocking"].fs = uz["async"].fs
        /\ uz["blocking"].err.type = uz["async"].err.type


----------------------------------------------------------------------------
(* Properties of parse_level *)

ParseLevelCalls ==
    {lastCall[i] : i \in {j \in 1..Len(lastCall) :
                             lastCall[j].fn = "parse_level"}}

\* a pair that is followed by one space and the next key, without a comma
MissingComma(doc, i) == i < Len(doc) /\ doc[i].sep = Space

RECURSIVE RepairedText(_, _, _)
\* the pairs of the document with ', ' in place of ' ' after every value of
\* one of the given shapes that is followed by the next key
RepairedText(doc, i, shapes) ==
    IF i > Len(doc) THEN <<>>
    ELSE Quoted(Key(i)) \o <<":", " ">> \o doc[i].value.text
         \o (IF MissingComma(doc, i) /\ doc[i].value.shape \in shapes
             THEN Comma ELSE doc[i].sep)
         \o RepairedText(doc, i + 1, shapes)

\* C19: the repair inserts the comma after a value that is followed by a
\* space and the next key exactly when the value is an integer in [0,100],
\* an array of integers in [0,3] or a quoted alphanumeric string, and
\* changes nothing else.
C19_ThreeShapesRepaired ==
    \A r \in ParseLevelCalls :
        r.fixed = <<"{">>
                  \o RepairedText(r.doc, 1, {"int100", "array3", "alnum"})
                  \o <<"}">>

\* every pair of the document other than pair i is well written: a value
\* that JSON knows, followed by a comma or by the closing brace
WellWrittenBut(doc, i) ==
    \A j \in 1..Len(doc) :
        /\ doc[j].value.shape # "control"
        /\ j # i => (doc[j].sep = Comma \/ j = Len(doc))

\* C20: when the value of a key is a bare integer in [0,100] followed by
\* one space and the next key, in a document that is well written
\* elsewhere, parse_level succeeds and both keys are in the same mapping
\* with their values.
C20_BareIntegerRepaired ==
    \A r \in ParseLevelCalls :
        \A i \in 1..Len(r.doc) :
            (/\ MissingComma(r.doc, i)
             /\ r.doc[i].value.shape = "int100"
             /\ WellWrittenBut(r.doc, i)) =>
                /\ r.out.ok
                /\ r.out.val.t = "obj"
                /\ {Key(i), Key(i + 1)} \subseteq DOMAIN r.out.val.v
                /\ r.out.val.v[Key(i)].t = "int"
                /\ r.out.val.v[Key(i)].v = r.doc[i].value.val.v
                /\ r.out.val.v[Key(i + 1)].t = r.doc[i + 1].value.val.t
                /\ r.out.val.v[Key(i + 1)].v = r.doc[i + 1].value.val.v

\* "difficulty": 5 "tags": "abc"
C20_Witness ==
    /\ lastCall # Nil
    /\ lastCall[1].fn = "parse_level"
    /\ lastCall[1].text =
          <<"{">> \o Quoted(Key(1)) \o <<":", " ", "5", " ">>
          \o Quoted(Key(2)) \o <<":", " ">> \o Quoted(<<"a", "b", "c">>)
          \o <<" ", "}">>
    /\ lastCall[1].out.ok
    /\ lastCall[1].out.val.v[Key(1)].v = 5
    /\ lastCall[1].out.val.v[Key(2)].v = <<"a", "b", "c">>


\* the name get_filename obtained before sanitizing it: the text after the
\* last '/' of the url, or the value of the filename parameter
Obtained(r) ==
    IF endswith(r.url, Ext) THEN rsplit_last(r.url)
    ELSE search(r.header[1])[1]

RECURSIVE Without(_, _)
\* s with the characters of the set deleted, one character at a time
Without(s, set) ==
    IF s = <<>> THEN <<>>
    ELSE (IF Head(s) \in set THEN <<>> ELSE <<Head(s)>>)
         \o Without(Tail(s), set)

\* C26: the name get_filename returns is the obtained name with every
\* occurrence of < > : " / \ | ? * deleted, the other characters kept in
\* their order and nothing put in their place; it holds none of the nine
\* characters, and sanitizing it again changes nothing.
C26_SanitizeDeletesOnly ==
    \A r \in GetFilenameCalls :
        r.out.ok =>
            /\ r.out.name = Without(Obtained(r), IllegalSet)
            /\ \A i \in 1..Len(r.out.name) : r.out.name[i] \notin IllegalSet
            /\ sanitize(r.out.name) = r.out.name

\* a quoted value with a separator inside: the quotes and the '/' are gone
C26_Witness ==
    /\ lastCall # Nil
    /\ lastCall[1].fn = "get_filename"
    /\ lastCall[1].out.ok
    /\ Obtained(lastCall[1]) = <<"\"", "a", "/", "b", "\"">>
    /\ lastCall[1].out.name = <<"a", "b">>


----------------------------------------------------------------------------
(* Properties of a finished download *)

C30_ThreadsKeepTheirFiles ==
    \A w \in Workers :
        pc[w] = "returned" =>
            /\ IsFile(fs, full_path[w])
            /\ fs[Slot(full_path[w])].data = call[w].body

\* C28: on one event loop, while a coroutine is between the call of rename
\* and the return of open no other coroutine is running; no two coroutines
\* have the same destination open, through the same path or the same file;
\* and the paths of all successful calls, finished or just returning, are
\* pairwise distinct.
C28_CoroutinesNeverShare ==
    sched = "coroutines" =>
        /\ \A w \in Workers :
              pc[w] \in {"resolve", "rename", "probe", "open"} =>
                  \A v \in Workers \ {w} : pc[v] \in {"idle", "status", "next",
                                                      "returned", "raised"}
        /\ \A w \in Workers : \A v \in Workers \ {w} :
              fd[w].open /\ fd[v].open =>
                  /\ full_path[w] # full_path[v]
                  /\ fd[w].ino # fd[v].ino
        /\ \A w \in Workers : \A v \in Workers \ {w} :
              pc[w] = "returned" /\ pc[v] = "returned" =>
                  full_path[w] # full_path[v]
        /\ \A i \in DOMAIN hist : \A j \in DOMAIN hist :
              i < j /\ hist[i].clean /\ hist[j].clean =>
                  hist[i].path # hist[j].path
        /\ \A w \in Workers : \A i \in DOMAIN hist :
              pc[w] = "returned" /\ hist[i].clean =>
                  full_path[w] # hist[i].path

\* two coroutines that resolved to the same name both have their file open
C28_Witness ==
    /\ sched = "coroutines"
    /\ \A w \in Workers : fd[w].open /\ call[w].resolved = Some(Level)
    /\ \E w \in Workers : full_path[w] = Path(Dir, Level)
    /\ \E w \in Workers : full_path[w] = Path(Dir, Level2)

----------------------------------------------------------------------------
(* Properties of the stages of parse_level *)

\* the characters the normalization deletes
LineBreaks == {"\r", "\n", "\t"}

\* a pair whose value the repair knows, followed by a tab, a space and the
\* next key: the comma is missing, and the tab hides that from the repair
HiddenMissingComma(doc, i) ==
    /\ i < Len(doc)
    /\ doc[i].sep = TabSpace
    /\ doc[i].value.shape \in {"int100", "alnum"}

\* C24: every call runs the same four stages in the same order.  The text
\* is the file without its byte order mark; the repair works on that text,
\* line breaks and tabs still in it; the normalization works on the
\* repaired text; the parser gets the normalized text.  So a missing comma
\* that a tab hides from the repair stays missing, and the call fails,
\* although the same text without the tab is repaired.
C24_StagesInOrder ==
    \A r \in ParseLevelCalls :
        /\ r.text = (IF Head(r.file) = BOM THEN Tail(r.file) ELSE r.file)
        /\ r.text = Text(r.doc)
        /\ r.fixed = <<"{">> \o RepairedText(r.doc, 1, {"int100", "alnum"})
                     \o <<"}">>
        /\ r.stripped = Without(r.fixed, LineBreaks)
        /\ r.out.ok = loads(r.stripped).ok
        /\ r.out.ok => r.out.val = loads(r.stripped).val
        /\ (\E i \in 1..Len(r.doc) : HiddenMissingComma(r.doc, i)) => ~r.out.ok

\* a file with a byte order mark: "difficulty": 5<tab> "tags": true, which
\* fails, the tab being gone only after the repair
C24_Witness ==
    /\ lastCall # Nil
    /\ lastCall[1].fn = "parse_level"
    /\ Head(lastCall[1].file) = BOM
    /\ lastCall[1].text =
          <<"{">> \o Quoted(Key(1)) \o <<":", " ", "5", "\t", " ">>
          \o Quoted(Key(2)) \o <<":", " ", "t", "r", "u", "e", ",", " ", "}">>
    /\ lastCall[1].stripped =
          <<"{">> \o Quoted(Key(1)) \o <<":", " ", "5", " ">>
          \o Quoted(Key(2)) \o <<":", " ", "t", "r", "u", "e", ",", " ", "}">>
    /\ ~lastCall[1].out.ok

\* C25: the text handed to the parser is the repaired text with every
\* carriage return, newline and tab deleted, those inside string literals
\* too, and every other character kept in its place.
C25_LineBreaksDeleted ==
    \A r \in ParseLevelCalls :
        /\ r.stripped = Without(r.fixed, LineBreaks)
        /\ \A i \in 1..Len(r.stripped) : r.stripped[i] \notin LineBreaks
        /\ r.out.ok = loads(r.stripped).ok
        /\ \A i \in 1..Len(r.doc) :
              (r.out.ok /\ r.doc[i].value.shape = "string") =>
                  /\ r.out.val.v[Key(i)].t = "str"
                  /\ r.out.val.v[Key(i)].v =
                        Without(SubSeq(r.doc[i].value.text, 2,
                                       Len(r.doc[i].value.text) - 1),
                                LineBreaks)

\* "difficulty": ": 5<tab> " followed by a newline: the string is decoded
\* without its tab
C25_Witness ==
    /\ lastCall # Nil
    /\ lastCall[1].fn = "parse_level"
    /\ lastCall[1].text =
          <<"{">> \o Quoted(Key(1)) \o <<":", " ">>
          \o Quoted(<<":", " ", "5", "\t", " ">>) \o <<"\n", "}">>
    /\ lastCall[1].out.ok
    /\ lastCall[1].out.val.v[Key(1)].v = <<":", " ", "5", " ">>

\* the characters of the documents that are control characters and not
\* whitespace: the form feed
NonPrintable == {"\f"}

\* C21: a document whose only defect is a non-printable character, one
\* that is well-formed once these characters are deleted, is decoded, to
\* what the document without them decodes to.
C21_ControlCharacterRetried ==
    \A r \in ParseLevelCalls :
        (/\ \E i \in 1..Len(r.text) : r.text[i] \in NonPrintable
         /\ loads(Without(r.text, NonPrintable)).ok) =>
            /\ r.out.ok
            /\ r.out.val = loads(Without(r.text, NonPrintable)).val

RECURSIVE escape(_)
\* a string as JSON writes it between the quotes
escape(str) ==
    IF str = <<>> THEN <<>>
    ELSE (IF Head(str) \in {"\"", "\\"} THEN <<"\\", Head(str)>>
          ELSE IF Head(str) = "\t" THEN <<"\\", "t">>
          ELSE IF Head(str) = "\n" THEN <<"\\", "n">>
          ELSE IF Head(str) = "\r" THEN <<"\\", "r">>
          ELSE IF Head(str) = "\f" THEN <<"\\", "f">>
          ELSE <<Head(str)>>)
         \o escape(Tail(str))

RECURSIVE dumps(_), dumps_elements(_, _), dumps_members(_, _)
\* the elements of an array from the i-th on, separated by ', '
dumps_elements(arr, i) ==
    IF i > Len(arr) THEN <<>>
    ELSE dumps(arr[i]) \o (IF i < Len(arr) THEN <<",", " ">> ELSE <<>>)
         \o dumps_elements(arr, i + 1)

\* the members of a mapping with the given keys, separated by ', '
dumps_members(obj, keys) ==
    IF keys = {} THEN <<>>
    ELSE LET k == CHOOSE x \in keys : TRUE
         IN  Quoted(escape(k)) \o <<":", " ">> \o dumps(obj[k])
             \o (IF keys # {k} THEN <<",", " ">> ELSE <<>>)
             \o dumps_members(obj, keys \ {k})

\* the canonical JSON text of a decoded value, as json.dumps writes it
dumps(val) ==
    IF val.t = "int"
    THEN (IF val.v < 0 THEN <<"-">> \o Str(0 - val.v) ELSE Str(val.v))
    ELSE IF val.t = "str" THEN Quoted(escape(val.v))
    ELSE IF val.t = "lit"
    THEN (IF val.v = "true" THEN <<"t", "r", "u", "e">>
          ELSE IF val.v = "false" THEN <<"f", "a", "l", "s", "e">>
          ELSE <<"n", "u", "l", "l">>)
    ELSE IF val.t = "arr" THEN <<"[">> \o dumps_elements(val.v, 1) \o <<"]">>
    ELSE <<"{">> \o dumps_members(val.v, DOMAIN val.v) \o <<"}">>

RECURSIVE Equal(_, _)
\* two decoded values are equal: the same kind, and the same content
Equal(a, b) ==
    IF a.t # b.t THEN FALSE
    ELSE IF a.t \in {"int", "str", "lit"} THEN a.v = b.v
    ELSE IF a.t = "arr"
    THEN /\ Len(a.v) = Len(b.v)
         /\ \A i \in 1..Len(a.v) : Equal(a.v[i], b.v[i])
    ELSE /\ DOMAIN a.v = DOMAIN b.v
         /\ \A k \in DOMAIN a.v : Equal(a.v[k], b.v[k])

\* C22: the canonical JSON text of every document parse_level returns is
\* decoded by parse_level to an equal document.
C22_DecodeOfOutputIsOutput ==
    \A r \in ParseLevelCalls :
        r.out.ok =>
            /\ parse_level(dumps(r.out.val)).ok
            /\ Equal(parse_level(dumps(r.out.val)).val, r.out.val)

----------------------------------------------------------------------------
(* Properties of the in-place unzip_level *)

LegacyCalls ==
    {lastCall[i] : i \in {j \in 1..Len(lastCall) :
                             lastCall[j].fn = "py-vitals.unzip_level"}}

\* C27: a step of the in-place unzip_level that fails ends the call with
\* the exception of that step, and a call that returns had no failing
\* step.  After a failure of mkdir, of the extraction or of the delete the
\* archive is at path as it was.  After a failure of the rename nothing is
\* at path and the scratch directory holds every member of the archive.
C27_FailuresPropagate ==
    \A r \in LegacyCalls :
        /\ r.failed # "" => r.pc = "raised" /\ r.err # ""
        /\ r.pc = "returned" => r.failed = "" /\ r.err = ""
        /\ r.pc = "raised" => r.failed # ""
        /\ r.failed \in {"mkdir", "unpack", "remove"} =>
              /\ r.path \in DOMAIN r.fs
              /\ r.fs[r.path] = File(1, <<r.archive.kind>>)
        /\ r.failed = "rename" =>
              /\ r.path \notin DOMAIN r.fs
              /\ r.extension_less_path \in DOMAIN r.fs
              /\ r.fs[r.extension_less_path].kind = "dir"
              /\ r.inside = {r.archive.members[i].name :
                                i \in 1..Len(r.archive.members)}

\* the rename is refused after the archive with both members was deleted
C27_Witness ==
    /\ lastCall # Nil
    /\ lastCall[1].fn = "py-vitals.unzip_level"
    /\ lastCall[1].pc = "raised"
    /\ lastCall[1].failed = "rename"
    /\ lastCall[1].err = "OSError"
    /\ Level \notin DOMAIN lastCall[1].fs
    /\ Stem(Level) \in DOMAIN lastCall[1].fs
    /\ lastCall[1].inside = {MainRdlevel, Song}

----------------------------------------------------------------------------
(* Properties of the destination of a download *)

\* C29: without a caller's filename the file a download has open is a
\* direct child of the directory the call was given, and the directory
\* above the target directory gets no entry.
C29_DestinationIsAChild ==
    /\ \A w \in Workers :
          (call[w].filename = Nil /\ fd[w].open) =>
              /\ full_path[w].dir = call[w].dir
              /\ full_path[w].name \in DOMAIN fs
    /\ \A n \in DOMAIN fs : Len(n) < 3 \/ SubSeq(n, 1, 3) # <<".", ".", "/">>

====
